---- MODULE Spec2Model ----
(***************************************************************************)
(* Model of the invoice audit ledger (src/invoice_audit).                  *)
(*                                                                         *)
(* Python strings and byte strings are sequences of character codes        *)
(* (naturals).  Codes 0..15 are the hexadecimal digits "0".."f"; the       *)
(* decimal digits are the codes 0..9.  Every other literal of the source   *)
(* is one code of its own, named below.                                    *)
(***************************************************************************)
EXTENDS Integers, Sequences, FiniteSets, TLC

(***************************************************************************)
(* Bounds of the model.                                                    *)
(***************************************************************************)
MaxChain == 3      \* add_event is not called once the chain holds this many blocks
MaxTime == 1       \* time.time() returns a value in 1..MaxTime
MaxRuns == 2       \* number of times the process (and so the ledger) is started
MaxLeaves == 4     \* longest leaf list handed to the Merkle functions
HashMod == 3       \* one digest in HashMod satisfies the proof-of-work prefix
MaxFirstNonce == 1 \* largest nonce a followed mine_block run starts from
MaxAttempts == 2   \* the attempts a sealing with a budget would allow before giving up

(***************************************************************************)
(* Program constants.                                                      *)
(***************************************************************************)
DIFFICULTY == 4

(***************************************************************************)
(* String literals of the source.                                          *)
(***************************************************************************)
Zero == <<0>>                    \* "0"
Empty == <<>>                    \* "" and b"" (both falsy, like None)
LBrace == <<16>>                 \* "{"
RBrace == <<17>>                 \* "}"
Colon == <<18>>                  \* ": "
Comma == <<19>>                  \* ", "
\* dictionary keys, numbered in alphabetical order
K_actor == <<30>>
K_amount == <<31>>
K_approved == <<32>>
K_currency == <<33>>
K_date == <<34>>
K_event_type == <<35>>
K_index == <<36>>
K_invoice_no == <<37>>
K_merkle_root == <<38>>
K_nonce == <<39>>
K_previous_hash == <<40>>
K_reference_id == <<41>>
K_status == <<42>>
K_timestamp == <<43>>
K_vendor == <<44>>
\* values
GENESIS == <<50>>
SYSTEM == <<51>>
INVOICE_UPLOADED == <<52>>
PAYMENT_APPROVED == <<53>>
PAYMENT_PROCESSED == <<54>>
company_a == <<55>>
company_b == <<56>>
payment_gateway == <<57>>
JsonTrue == <<58>>               \* json.dumps(True)
SUCCESS == <<59>>
CompanyA == <<60>>               \* "Company A"
Amount125000 == <<1, 2, 5, 0, 0, 0>>
INR == <<61>>
Date20250301 == <<62>>
INV1 == <<70>>                   \* an invoice number (str(uuid.uuid4())[:8])
INV2 == <<71>>                   \* another invoice number
NoEntry == <<75>>                \* stands for "the id is not a key of the DB"
UPLOADED == <<72>>
APPROVED == <<73>>
PAID == <<74>>

(***************************************************************************)
(* str(n) / json.dumps(n) of a natural number: its decimal digits.          *)
(***************************************************************************)
RECURSIVE Str(_)
Str(n) == IF n < 10 THEN <<n>> ELSE Str(n \div 10) \o <<n % 10>>

(***************************************************************************)
(* hashlib.sha256(data.encode()).hexdigest().  SHA-256 is modelled as an   *)
(* ideal hash: the digest of s is DIFFICULTY leading hexadecimal digits,   *)
(* fixed by the content of s, followed by a body that determines s (so     *)
(* two different strings never share a digest).  The leading digits are    *)
(* "000" and then Checksum(s) % HashMod, which makes one digest in         *)
(* HashMod begin with DIFFICULTY zeros.                                    *)
(***************************************************************************)
\* the sum of the character codes of s (summed by halves)
RECURSIVE Checksum(_)
Checksum(s) ==
    IF Len(s) = 0 THEN 0
    ELSE IF Len(s) = 1 THEN s[1]
    ELSE Checksum(SubSeq(s, 1, Len(s) \div 2)) + Checksum(SubSeq(s, Len(s) \div 2 + 1, Len(s)))

HexPrefix(s) == [i \in 1..DIFFICULTY |-> IF i < DIFFICULTY THEN 0 ELSE Checksum(s) % HashMod]

sha256(data) == HexPrefix(data) \o <<20>> \o data \o <<21>>

\* str.startswith
startswith(s, prefix) ==
    /\ Len(s) >= Len(prefix)
    /\ SubSeq(s, 1, Len(prefix)) = prefix

(***************************************************************************)
(* json.dumps(d, sort_keys=True) of a flat dictionary.  d is a sequence of *)
(* <<key, value>> pairs in the order the source writes them, the values    *)
(* already serialised; the keys are sorted before they are written.        *)
(***************************************************************************)
RECURSIVE InsertByKey(_, _)
InsertByKey(sorted, kv) ==
    IF sorted = <<>> THEN <<kv>>
    ELSE IF kv[1][1] < Head(sorted)[1][1] THEN <<kv>> \o sorted
    ELSE <<Head(sorted)>> \o InsertByKey(Tail(sorted), kv)

RECURSIVE SortKeys(_)
SortKeys(d) == IF d = <<>> THEN <<>> ELSE InsertByKey(SortKeys(Tail(d)), Head(d))

RECURSIVE JoinItems(_)
JoinItems(d) ==
    IF d = <<>> THEN <<>>
    ELSE Head(d)[1] \o Colon \o Head(d)[2] \o (IF Len(d) > 1 THEN Comma ELSE <<>>) \o JoinItems(Tail(d))

JsonDumpsSorted(d) == LBrace \o JoinItems(SortKeys(d)) \o RBrace

(***************************************************************************)
(* bytes.hex() and bytes.fromhex(): two hexadecimal digits per byte.       *)
(***************************************************************************)
Hex(bytes) ==
    [i \in 1..(2 * Len(bytes)) |-> IF i % 2 = 1 THEN bytes[(i + 1) \div 2] \div 16
                                                ELSE bytes[i \div 2] % 16]

FromHex(h) == [i \in 1..(Len(h) \div 2) |-> 16 * h[2 * i - 1] + h[2 * i]]

(***************************************************************************)
(* Merkle tree functions.                                                  *)
(***************************************************************************)
\* variant: an odd level is padded with its first entry
PadLevel_First(level) == IF Len(level) % 2 = 1 THEN Append(level, level[1]) ELSE level

\* the odd-length padding of one level: level.append(level[-1])
PadLevel(level) == IF Len(level) % 2 = 1 THEN Append(level, level[Len(level)]) ELSE level

\* the for loop building next_level from a level of even length
NextLevel(level) == [i \in 1..(Len(level) \div 2) |-> sha256(level[2 * i - 1] \o level[2 * i])]

RECURSIVE MerkleLoop(_)
MerkleLoop(level) == IF Len(level) > 1 THEN MerkleLoop(NextLevel(PadLevel(level))) ELSE level[1]

build_merkle_root(leaves) == IF leaves = <<>> THEN Zero ELSE MerkleLoop(leaves)

\* the caller's list after build_merkle_root(leaves) has returned: level is a
\* copy (leaves[:]), so the padding appends never reach the caller's list
build_merkle_root_leaves(leaves) == leaves

\* leaves.index(target), as a 0-based position; target is in leaves
IndexOf(leaves, target) == (CHOOSE i \in 1..Len(leaves) :
                               /\ leaves[i] = target
                               /\ \A j \in 1..(i - 1) : leaves[j] # target) - 1

\* idx ^ 1
Xor1(idx) == IF idx % 2 = 0 THEN idx + 1 ELSE idx - 1

RECURSIVE ProofLoop(_, _, _)
ProofLoop(level, idx, proof) ==
    IF Len(level) > 1
    THEN ProofLoop(NextLevel(PadLevel(level)), idx \div 2,
                   Append(proof, PadLevel(level)[Xor1(idx) + 1]))
    ELSE proof

merkle_proof(leaves, target) == ProofLoop(leaves, IndexOf(leaves, target), <<>>)

RECURSIVE FoldProof(_, _)
FoldProof(computed, proof) ==
    IF proof = <<>> THEN computed
    ELSE FoldProof(sha256(computed \o Head(proof)), Tail(proof))

verify_merkle_proof(target, proof, root) == FoldProof(target, proof) = root

(***************************************************************************)
(* ECDSA over SECP256R1.  A key pair is identified by a number; a          *)
(* signature is valid for a message under a public key exactly if it was   *)
(* made over that message with the private key of the same pair.  (The     *)
(* random part of an ECDSA signature plays no role in verification and is  *)
(* left out.)                                                              *)
(***************************************************************************)
\* private_key.sign(msg, ec.ECDSA(hashes.SHA256())), msg = data_hash.encode()
Sign(private_key, msg) == <<22, private_key>> \o msg

\* public_key.verify(signature, msg, ...): TRUE if it returns, FALSE if it
\* raises InvalidSignature
Verify(public_key, signature, msg) == signature = Sign(public_key, msg)

(***************************************************************************)
(* AuditBlock                                                              *)
(***************************************************************************)
calculate_hash(b) ==
    sha256(JsonDumpsSorted(<< <<K_index, Str(b.index)>>,
                              <<K_event_type, b.event_type>>,
                              <<K_reference_id, b.reference_id>>,
                              <<K_actor, b.actor>>,
                              <<K_merkle_root, b.merkle_root>>,
                              <<K_timestamp, Str(b.timestamp)>>,
                              <<K_previous_hash, b.previous_hash>>,
                              <<K_nonce, Str(b.nonce)>> >>))

Prefix == [i \in 1..DIFFICULTY |-> 0]        \* "0" * DIFFICULTY

\* mutant of mine_block: the nonce is increased before the hash is tested, so
\* the hash returned belongs to the nonce before the final one
RECURSIVE mine_block_post_increment(_)
mine_block_post_increment(b) ==
    IF startswith(calculate_hash(b), Prefix)
    THEN [b EXCEPT !.hash = calculate_hash(b), !.nonce = @ + 1]
    ELSE mine_block_post_increment([b EXCEPT !.nonce = @ + 1])

\* mine_block: the block with the nonce the loop stops at and the hash it returns
RECURSIVE mine_block(_)
mine_block(b) ==
    IF startswith(calculate_hash(b), Prefix)
    THEN [b EXCEPT !.hash = calculate_hash(b)]
    ELSE mine_block([b EXCEPT !.nonce = @ + 1])

\* AuditBlock.__init__; block_hash = Empty stands for None (and "")
AuditBlock(index, event_type, reference_id, actor, data_hash, previous_hash, timestamp, leaf_hashes, signature, nonce, block_hash) ==
    LET self == [index |-> index,
                 event_type |-> event_type,
                 reference_id |-> reference_id,
                 actor |-> actor,
                 data_hash |-> data_hash,
                 leaf_hashes |-> leaf_hashes,
                 merkle_root |-> build_merkle_root(leaf_hashes),
                 signature |-> Hex(signature),
                 timestamp |-> timestamp,
                 previous_hash |-> previous_hash,
                 nonce |-> nonce,
                 hash |-> Empty]
    IN IF block_hash # Empty THEN [self EXCEPT !.hash = block_hash] ELSE mine_block(self)

to_dict(b) ==
    [index |-> b.index,
     event_type |-> b.event_type,
     reference_id |-> b.reference_id,
     actor |-> b.actor,
     leaf_hashes |-> b.leaf_hashes,
     merkle_root |-> b.merkle_root,
     signature |-> b.signature,
     timestamp |-> b.timestamp,
     previous_hash |-> b.previous_hash,
     nonce |-> b.nonce,
     hash |-> b.hash]

\* mutant of from_dict: nonce=d["nonce"] is left out, the default 0 is taken
from_dict_default_nonce(d) ==
    AuditBlock(d.index, d.event_type, d.reference_id, d.actor, Empty, d.previous_hash,
               d.timestamp, d.leaf_hashes, FromHex(d.signature), 0, d.hash)

\* variant of from_dict: the stored merkle_root is put back on the block
from_dict_stored_root(d) ==
    [AuditBlock(d.index, d.event_type, d.reference_id, d.actor, Empty, d.previous_hash,
                d.timestamp, d.leaf_hashes, FromHex(d.signature), d.nonce, d.hash)
        EXCEPT !.merkle_root = d.merkle_root]

from_dict(d) ==
    AuditBlock(d.index, d.event_type, d.reference_id, d.actor, Empty, d.previous_hash,
               d.timestamp, d.leaf_hashes, FromHex(d.signature), d.nonce, d.hash)

\* [b.to_dict() for b in self.chain]
ToDicts(blocks) == [i \in 1..Len(blocks) |-> to_dict(blocks[i])]

\* [AuditBlock.from_dict(b) for b in data]
FromDicts(data) == [i \in 1..Len(data) |-> from_dict(data[i])]

\* the block _create_genesis_block builds
GenesisBlock(ts) ==
    AuditBlock(0, GENESIS, SYSTEM, SYSTEM, Zero, Zero, ts, <<Zero>>, Empty, 0, Empty)

\* mutant of verify_signature: the signature is checked against data_hash
\* instead of leaf_hashes[0]
verify_signature_data_hash(public_key, block) ==
    Verify(public_key, FromHex(block.signature), block.data_hash)

\* variant: a block without a signature is taken as valid
verify_signature_skip_unsigned(public_key, block) ==
    \/ block.signature = Empty
    \/ Verify(public_key, FromHex(block.signature), block.leaf_hashes[1])

\* verify_signature: public_key.verify raises InvalidSignature for every
\* signature it does not accept, a malformed or empty one included, and the
\* except clause turns that into False
verify_signature(public_key, block) ==
    Verify(public_key, FromHex(block.signature), block.leaf_hashes[1])

\* the exceptions verify_signature does not catch: ValueError of bytes.fromhex
\* (odd length, or a character that is no hex digit) and IndexError of
\* leaf_hashes[0]
verify_signature_raises(block) ==
    \/ Len(block.signature) % 2 = 1
    \/ \E i \in 1..Len(block.signature) : block.signature[i] > 15
    \/ block.leaf_hashes = <<>>

(***************************************************************************)
(* The callers of add_event (app.py): the three request handlers and the   *)
(* arguments they pass.                                                    *)
(***************************************************************************)
RefIds == {INV1}
InvoiceIds == {INV1, INV2}       \* the invoice ids the request handlers are called with
Timestamps == 1..MaxTime
Threads == {1, 2}

\* extract_invoice_data, with the invoice number it drew
Extracted(invoice_no) ==
    << <<K_invoice_no, invoice_no>>, <<K_vendor, CompanyA>>, <<K_amount, Amount125000>>,
       <<K_currency, INR>>, <<K_date, Date20250301>> >>

UploadEvent(id) ==
    [event_type |-> INVOICE_UPLOADED, reference_id |-> id, actor |-> company_a,
     canonical_data |-> Extracted(id)]
ApproveEvent(id) ==
    [event_type |-> PAYMENT_APPROVED, reference_id |-> id, actor |-> company_b,
     canonical_data |-> << <<K_approved, JsonTrue>> >>]
PayEvent(id) ==
    [event_type |-> PAYMENT_PROCESSED, reference_id |-> id, actor |-> payment_gateway,
     canonical_data |-> << <<K_status, SUCCESS>> >>]

Events == {UploadEvent(id) : id \in RefIds} \cup {ApproveEvent(id) : id \in RefIds}
              \cup {PayEvent(id) : id \in RefIds}

NoEvent == [event_type |-> Empty, reference_id |-> Empty, actor |-> Empty,
            canonical_data |-> <<>>]

\* the local variables of a caller that is not inside add_event
NoLocals == [ev |-> NoEvent, data_hash |-> Empty, signature |-> Empty, index |-> 0,
             block |-> <<>>]

(***************************************************************************)
(* State.                                                                  *)
(***************************************************************************)
VARIABLES
    ledger,     \* "off": no process yet; "up": app.ledger is constructed;
                \* "failed": AuditBlockchain() raised and the process ended
    chain,      \* ledger.chain
    key,        \* the key pair of this ledger object (private_key, public_key)
    runs,       \* how many times AuditBlockchain() has been called
    file,       \* CHAIN_FILE: absent, holding a JSON list, or cut short by a failed write
    pc,         \* per caller thread: where it is inside add_event
    loc,        \* per caller thread: the local variables of add_event
    ret,        \* the block add_event returned, when the last step was that return
    vres,       \* the answer of verify_signature, when the last step was that query
    view,       \* the answer of view_chain, when the last step was that query
    mk,         \* the Merkle functions' arguments and results (SpecMerkle)
    seal,       \* one run of mine_block, attempt by attempt (SpecSeal)
    db,         \* DB_FILE: the status stored for each invoice id, NoEntry if it has none
    resp,       \* the HTTP status a request handler answered, when the last step was that answer
    nloaded      \* how many blocks this process read from CHAIN_FILE when it started

vars == <<ledger, chain, key, runs, file, pc, loc, ret, vres, view, mk, seal, db, resp, nloaded>>

NoFile == [state |-> "absent", data |-> <<>>]
TornFile == [state |-> "corrupt", data |-> <<>>]
FileOf(blocks) == [state |-> "ok", data |-> ToDicts(blocks)]

\* no sealing run is followed
NoSeal == [pc |-> "off", block |-> <<>>, first |-> 0, attempts |-> 0]

\* DB_FILE as app.py creates it: {}
NoDb == [id \in InvoiceIds |-> NoEntry]

NoMerkle == [pc |-> "off", leaves |-> <<>>, target |-> <<>>, proof |-> <<>>,
             root |-> <<>>, ok |-> FALSE]

AllIdle == \A t \in Threads : pc[t] = "idle"
Busy == {t \in Threads : pc[t] # "idle"}

\* a step that answers nothing: the answer of the step before it is gone
NoAnswer == ret' = <<>> /\ vres' = <<>> /\ view' = <<>> /\ resp' = <<>>

Init ==
    /\ ledger = "off"
    /\ chain = <<>>
    /\ key = 0
    /\ runs = 0
    /\ file = NoFile
    /\ pc = [t \in Threads |-> "idle"]
    /\ loc = [t \in Threads |-> NoLocals]
    /\ ret = <<>>
    /\ vres = <<>>
    /\ view = <<>>
    /\ mk = NoMerkle
    /\ seal = NoSeal
    /\ db = NoDb
    /\ resp = <<>>
    /\ nloaded = 0

(***************************************************************************)
(* Process start: `ledger = AuditBlockchain()` at import of app.py.  A     *)
(* start when a process is up is a restart: the old process, with its      *)
(* chain and key, is gone.  Restarts happen between requests.              *)
(***************************************************************************)
CanStart == runs < MaxRuns /\ AllIdle

\* variant: every start comes up with the same signing key
NewProcess_SameKey ==
    /\ runs' = runs + 1
    /\ key' = 1
    /\ UNCHANGED <<pc, loc, mk, seal, db>>
    /\ NoAnswer

\* what every start does before it looks at CHAIN_FILE
NewProcess ==
    /\ runs' = runs + 1
    /\ key' = runs + 1                      \* ec.generate_private_key
    /\ UNCHANGED <<pc, loc, mk, seal, db>>
    /\ NoAnswer

\* __init__, no CHAIN_FILE: _create_genesis_block, and _persist succeeds
StartGenesis(ts) ==
    /\ CanStart
    /\ file.state = "absent"
    /\ NewProcess
    /\ chain' = <<GenesisBlock(ts)>>
    /\ file' = FileOf(chain')
    /\ ledger' = "up"
    /\ nloaded' = 0

\* __init__, no CHAIN_FILE: _create_genesis_block, and _persist raises.
\* open() raised (the file is as before) or the write stopped after open()
\* had created the file (the file is cut short).
StartGenesisFail(ts, torn) ==
    /\ CanStart
    /\ file.state = "absent"
    /\ NewProcess
    /\ chain' = <<>>
    /\ file' = IF torn THEN TornFile ELSE file
    /\ ledger' = "failed"
    /\ nloaded' = 0

\* mutant of StartLoad: __init__ calls _create_genesis_block after _load_chain
StartLoad_NewGenesis ==
    /\ CanStart
    /\ file.state = "ok"
    /\ NewProcess
    /\ \E ts \in Timestamps : chain' = Append(FromDicts(file.data), GenesisBlock(ts))
    /\ file' = FileOf(chain')
    /\ ledger' = "up"
    /\ nloaded' = Len(file.data)

\* __init__, CHAIN_FILE exists and parses: _load_chain
StartLoad ==
    /\ CanStart
    /\ file.state = "ok"
    /\ NewProcess
    /\ chain' = FromDicts(file.data)
    /\ ledger' = "up"
    /\ nloaded' = Len(file.data)
    /\ UNCHANGED file

\* __init__, CHAIN_FILE exists and does not parse: json.load raises
StartLoadFail ==
    /\ CanStart
    /\ file.state = "corrupt"
    /\ NewProcess
    /\ chain' = <<>>
    /\ ledger' = "failed"
    /\ nloaded' = 0
    /\ UNCHANGED file

(***************************************************************************)
(* add_event, statement by statement, run by caller thread t.              *)
(***************************************************************************)
\* lines 178-182: data_hash and signature
AddEventEnter(t, ev) ==
    /\ ledger = "up"
    /\ pc[t] = "idle"
    /\ Len(chain) + Cardinality(Busy) < MaxChain
    /\ LET data_hash == sha256(JsonDumpsSorted(ev.canonical_data))
       IN loc' = [loc EXCEPT ![t] = [NoLocals EXCEPT !.ev = ev,
                                                     !.data_hash = data_hash,
                                                     !.signature = Sign(key, data_hash)]]
    /\ pc' = [pc EXCEPT ![t] = "index"]
    /\ NoAnswer
    /\ UNCHANGED <<ledger, chain, key, runs, file, mk, seal, nloaded>>

\* add_event called on the ledger, DB_FILE not involved
AddEventSign(t, ev) == AddEventEnter(t, ev) /\ UNCHANGED db

\* line 185: index=len(self.chain)
AddEventIndex(t) ==
    /\ pc[t] = "index"
    /\ loc' = [loc EXCEPT ![t].index = Len(chain)]
    /\ pc' = [pc EXCEPT ![t] = "build"]
    /\ NoAnswer
    /\ UNCHANGED <<ledger, chain, key, runs, file, mk, seal, db, nloaded>>

\* mutant of AddEventBuild: previous_hash=self.chain[0].hash
AddEventBuild_FirstBlock(t, ts) ==
    /\ pc[t] = "build"
    /\ LET l == loc[t]
           block == AuditBlock(l.index, l.ev.event_type, l.ev.reference_id, l.ev.actor,
                               l.data_hash, chain[1].hash, ts,
                               <<l.data_hash>>, l.signature, 0, Empty)
       IN loc' = [loc EXCEPT ![t].block = <<block>>]
    /\ pc' = [pc EXCEPT ![t] = "append"]
    /\ NoAnswer
    /\ UNCHANGED <<ledger, chain, key, runs, file, mk, seal, db, nloaded>>

\* lines 186-194: previous_hash=self.chain[-1].hash, timestamp=time.time(),
\* and AuditBlock.__init__, which seals the block
AddEventBuild(t, ts) ==
    /\ pc[t] = "build"
    /\ LET l == loc[t]
           block == AuditBlock(l.index, l.ev.event_type, l.ev.reference_id, l.ev.actor,
                               l.data_hash, chain[Len(chain)].hash, ts,
                               <<l.data_hash>>, l.signature, 0, Empty)
       IN loc' = [loc EXCEPT ![t].block = <<block>>]
    /\ pc' = [pc EXCEPT ![t] = "append"]
    /\ NoAnswer
    /\ UNCHANGED <<ledger, chain, key, runs, file, mk, seal, db, nloaded>>

\* variant: the block is put on the chain before its hash is set
AddEventAppend_Unsealed(t) ==
    /\ pc[t] = "append"
    /\ chain' = Append(chain, [loc[t].block[1] EXCEPT !.hash = Empty])
    /\ pc' = [pc EXCEPT ![t] = "persist"]
    /\ NoAnswer
    /\ UNCHANGED <<ledger, key, runs, file, loc, mk, seal, db, nloaded>>

\* line 196: self.chain.append(block)
AddEventAppend(t) ==
    /\ pc[t] = "append"
    /\ chain' = Append(chain, loc[t].block[1])
    /\ pc' = [pc EXCEPT ![t] = "persist"]
    /\ NoAnswer
    /\ UNCHANGED <<ledger, key, runs, file, loc, mk, seal, db, nloaded>>

\* lines 197-198: _persist succeeds, return block
AddEventPersist(t) ==
    /\ pc[t] = "persist"
    /\ file' = FileOf(chain)
    /\ ret' = loc[t].block
    /\ vres' = <<>>
    /\ view' = <<>>
    /\ resp' = <<>>
    /\ loc' = [loc EXCEPT ![t] = NoLocals]
    /\ pc' = [pc EXCEPT ![t] = "idle"]
    /\ UNCHANGED <<ledger, chain, key, runs, mk, seal, db, nloaded>>

\* line 197: _persist raises and add_event with it: open() raised (the file
\* is as before) or the write stopped after open() had truncated the file
AddEventPersistFail(t, torn) ==
    /\ pc[t] = "persist"
    /\ file' = IF torn THEN TornFile ELSE file
    /\ loc' = [loc EXCEPT ![t] = NoLocals]
    /\ pc' = [pc EXCEPT ![t] = "idle"]
    /\ NoAnswer
    /\ UNCHANGED <<ledger, chain, key, runs, mk, seal, db, nloaded>>

(***************************************************************************)
(* Queries.                                                                *)
(***************************************************************************)
\* ledger.verify_signature(ledger.chain[i])
VerifySignature(i) ==
    /\ ledger = "up"
    /\ i \in 1..Len(chain)
    /\ vres' = <<[block |-> i,
                  raised |-> verify_signature_raises(chain[i]),
                  valid |-> ~verify_signature_raises(chain[i]) /\ verify_signature(key, chain[i])]>>
    /\ view' = <<>>
    /\ ret' = <<>>
    /\ resp' = <<>>
    /\ UNCHANGED <<ledger, chain, key, runs, file, pc, loc, mk, seal, db, nloaded>>

\* GET /chain
ViewChain ==
    /\ ledger = "up"
    /\ view' = <<ToDicts(chain)>>
    /\ vres' = <<>>
    /\ ret' = <<>>
    /\ resp' = <<>>
    /\ UNCHANGED <<ledger, chain, key, runs, file, pc, loc, mk, seal, db, nloaded>>

(***************************************************************************)
(* Spec: the requests (add_event calls and queries) run one at a time.     *)
(* SpecConc: request handlers run in threads and interleave.               *)
(***************************************************************************)
Start ==
    \/ \E ts \in Timestamps : StartGenesis(ts)
    \/ \E ts \in Timestamps, torn \in BOOLEAN : StartGenesisFail(ts, torn)
    \/ StartLoad
    \/ StartLoadFail

AddEventSteps(t) ==
    \/ AddEventIndex(t)
    \/ \E ts \in Timestamps : AddEventBuild(t, ts)
    \/ AddEventAppend(t)
    \/ AddEventPersist(t)
    \/ \E torn \in BOOLEAN : AddEventPersistFail(t, torn)

Queries ==
    \/ \E i \in 1..MaxChain : VerifySignature(i)
    \/ ViewChain

Next ==
    \/ Start
    \/ \E t \in Threads, ev \in Events : AllIdle /\ AddEventSign(t, ev)
    \/ \E t \in Threads : AddEventSteps(t)
    \/ AllIdle /\ Queries

Spec == Init /\ [][Next]_vars

NextConc ==
    \/ Start
    \/ \E t \in Threads, ev \in Events : AddEventSign(t, ev)
    \/ \E t \in Threads : AddEventSteps(t)
    \/ Queries

SpecConc == Init /\ [][NextConc]_vars

(***************************************************************************)
(* SpecApp: the request handlers of app.py, one request at a time, with    *)
(* restarts of the process in between.  A handler updates DB_FILE and then *)
(* calls add_event, whose statements are the add_event steps above.        *)
(***************************************************************************)
\* upload_invoice, lines 34-59: db[invoice_id] = {..., "status": "UPLOADED"} is
\* written to DB_FILE, then ledger.add_event is called
HandleUpload(t, id) ==
    /\ db' = [db EXCEPT ![id] = UPLOADED]
    /\ AddEventEnter(t, UploadEvent(id))

\* variant of approve: the check that the invoice is in the DB is left out
HandleApprove_NoCheck(t, id) ==
    /\ db' = [db EXCEPT ![id] = APPROVED]
    /\ AddEventEnter(t, ApproveEvent(id))

\* approve, lines 68-84, invoice in the DB: status "APPROVED" is written, then
\* ledger.add_event is called
HandleApprove(t, id) ==
    /\ db[id] # NoEntry
    /\ db' = [db EXCEPT ![id] = APPROVED]
    /\ AddEventEnter(t, ApproveEvent(id))

\* pay, lines 90-106, invoice in the DB: status "PAID" is written, then
\* ledger.add_event is called
HandlePay(t, id) ==
    /\ db[id] # NoEntry
    /\ db' = [db EXCEPT ![id] = PAID]
    /\ AddEventEnter(t, PayEvent(id))

\* approve and pay, invoice not in the DB: raise HTTPException(404), lines
\* 71-72 and 93-94
HandleNotFound(t, id) ==
    /\ ledger = "up"
    /\ pc[t] = "idle"
    /\ db[id] = NoEntry
    /\ resp' = <<404>>
    /\ ret' = <<>>
    /\ vres' = <<>>
    /\ view' = <<>>
    /\ UNCHANGED <<ledger, chain, key, runs, file, pc, loc, mk, seal, db, nloaded>>

Handlers(t, id) ==
    \/ HandleUpload(t, id)
    \/ HandleApprove(t, id)
    \/ HandlePay(t, id)
    \/ HandleNotFound(t, id)

NextApp ==
    \/ Start
    \/ \E t \in Threads, id \in InvoiceIds : AllIdle /\ Handlers(t, id)
    \/ \E t \in Threads : AddEventSteps(t)

SpecApp == Init /\ [][NextApp]_vars

(***************************************************************************)
(* SpecMerkle: the Merkle functions applied to bounded inputs.  A run      *)
(* takes a leaf list and a target in it, builds the root, then the proof,  *)
(* then verifies the proof.                                                *)
(***************************************************************************)
LeafDigests == {sha256(Str(k)) : k \in 1..MaxLeaves}
LeafLists == UNION {[1..n -> LeafDigests] : n \in 0..MaxLeaves}
Range(f) == {f[i] : i \in DOMAIN f}
Distinct(f) == \A i, j \in DOMAIN f : i # j => f[i] # f[j]

InitMerkle ==
    /\ ledger = "off"
    /\ chain = <<>>
    /\ key = 0
    /\ runs = 0
    /\ file = NoFile
    /\ pc = [t \in Threads |-> "idle"]
    /\ loc = [t \in Threads |-> NoLocals]
    /\ ret = <<>>
    /\ vres = <<>>
    /\ view = <<>>
    /\ seal = NoSeal
    /\ db = NoDb
    /\ resp = <<>>
    /\ nloaded = 0
    /\ \E leaves \in LeafLists :
          \E target \in (IF leaves = <<>> THEN {<<>>} ELSE Range(leaves)) :
             mk = [NoMerkle EXCEPT !.pc = "start", !.leaves = leaves, !.target = target]

MerkleRoot ==
    /\ mk.pc = "start"
    /\ mk' = [mk EXCEPT !.root = build_merkle_root(mk.leaves),
                        !.leaves = build_merkle_root_leaves(mk.leaves),
                        !.pc = "root"]
    /\ UNCHANGED <<ledger, chain, key, runs, file, pc, loc, ret, vres, view, seal, db, resp, nloaded>>

\* leaves.index(target) raises ValueError on the empty list: no proof is built
MerkleProof ==
    /\ mk.pc = "root"
    /\ mk.leaves # <<>>
    /\ mk' = [mk EXCEPT !.proof = merkle_proof(mk.leaves, mk.target), !.pc = "proof"]
    /\ UNCHANGED <<ledger, chain, key, runs, file, pc, loc, ret, vres, view, seal, db, resp, nloaded>>

MerkleVerify ==
    /\ mk.pc = "proof"
    /\ mk' = [mk EXCEPT !.ok = verify_merkle_proof(mk.target, mk.proof, mk.root),
                        !.pc = "done"]
    /\ UNCHANGED <<ledger, chain, key, runs, file, pc, loc, ret, vres, view, seal, db, resp, nloaded>>

NextMerkle == MerkleRoot \/ MerkleProof \/ MerkleVerify

SpecMerkle == InitMerkle /\ [][NextMerkle]_vars

(***************************************************************************)
(* SpecSeal: one run of mine_block followed attempt by attempt, on a block *)
(* whose fields and initial nonce are drawn from bounded sets.             *)
(***************************************************************************)
\* the block as __init__ has it when it calls mine_block: every field set, no hash
Unsealed(index, ev, previous_hash, timestamp, nonce) ==
    [AuditBlock(index, ev.event_type, ev.reference_id, ev.actor, Zero, previous_hash,
                timestamp, <<Zero>>, Empty, nonce, Zero) EXCEPT !.hash = Empty]

SealInputs ==
    {Unsealed(index, ev, previous_hash, ts, nonce) :
        index \in 0..MaxChain, ev \in Events, previous_hash \in {Zero} \cup LeafDigests,
        ts \in Timestamps, nonce \in 0..MaxFirstNonce}

InitSeal ==
    /\ ledger = "off"
    /\ chain = <<>>
    /\ key = 0
    /\ runs = 0
    /\ file = NoFile
    /\ pc = [t \in Threads |-> "idle"]
    /\ loc = [t \in Threads |-> NoLocals]
    /\ ret = <<>>
    /\ vres = <<>>
    /\ view = <<>>
    /\ mk = NoMerkle
    /\ db = NoDb
    /\ resp = <<>>
    /\ nloaded = 0
    /\ \E b \in SealInputs :
          seal = [pc |-> "search", block |-> <<b>>, first |-> b.nonce, attempts |-> 0]

\* variant of the failed attempt: the nonce goes up by two
MineAttemptFail_Skip ==
    /\ seal.pc = "search"
    /\ ~startswith(calculate_hash(seal.block[1]), Prefix)
    /\ seal' = [seal EXCEPT !.block[1].nonce = @ + 2, !.attempts = @ + 1]
    /\ UNCHANGED <<ledger, chain, key, runs, file, pc, loc, ret, vres, view, mk, db, resp, nloaded>>

\* one pass of the loop whose hash does not start with the prefix: self.nonce += 1
MineAttemptFail ==
    /\ seal.pc = "search"
    /\ ~startswith(calculate_hash(seal.block[1]), Prefix)
    /\ seal' = [seal EXCEPT !.block[1].nonce = @ + 1, !.attempts = @ + 1]
    /\ UNCHANGED <<ledger, chain, key, runs, file, pc, loc, ret, vres, view, mk, db, resp, nloaded>>

\* the pass whose hash starts with the prefix: return h, and __init__ stores it
MineReturn ==
    /\ seal.pc = "search"
    /\ startswith(calculate_hash(seal.block[1]), Prefix)
    /\ seal' = [seal EXCEPT !.block[1].hash = calculate_hash(seal.block[1]),
                            !.attempts = @ + 1, !.pc = "done"]
    /\ UNCHANGED <<ledger, chain, key, runs, file, pc, loc, ret, vres, view, mk, db, resp, nloaded>>

NextSeal == MineAttemptFail \/ MineReturn

SpecSeal == InitSeal /\ [][NextSeal]_vars

(***************************************************************************)
(* Properties.                                                             *)
(***************************************************************************)
\* the digests a leaf hash can be replaced by
Digests == {sha256(JsonDumpsSorted(ev.canonical_data)) : ev \in Events} \cup {Zero}

\* blocks agree on every recorded field (the fields of to_dict)
SameRecord(a, b) == to_dict(a) = to_dict(b)

\* C1: chain linkage.  With add_event calls run one at a time and restarts in
\* between, every block after the first carries the hash of the block before it
\* as its previous_hash.
C1_ChainLinkage ==
    \A i \in 2..Len(chain) : chain[i].previous_hash = chain[i - 1].hash

\* a reloaded chain of three linked blocks
C1_Witness ==
    /\ ledger = "up"
    /\ runs >= 2
    /\ Len(chain) >= 3
    /\ chain[3].previous_hash = chain[2].hash

\* C2: add_event is all-or-nothing.  Whenever no add_event is in progress, the
\* chain in memory and the chain in CHAIN_FILE hold the same blocks, also after
\* an add_event whose durable write failed.
C2_AllOrNothing ==
    (ledger = "up" /\ AllIdle) => file = FileOf(chain)

\* C3: add_event calls are serialized.  With concurrent callers no two blocks of
\* the chain carry the same previous_hash or the same index.
C3_NoSharedTip ==
    \A i, j \in 1..Len(chain) :
        i # j => /\ chain[i].previous_hash # chain[j].previous_hash
                 /\ chain[i].index # chain[j].index

\* C4: Merkle round trip.  For a list of pairwise distinct digests and any
\* target in it, the proof built for the target verifies against the root.
C4_MerkleRoundTrip ==
    (mk.pc = "done" /\ Distinct(mk.leaves)) => mk.ok

\* C5: signature integrity.  The block add_event returns verifies under the
\* ledger that made it, and does not verify once leaf_hashes[0] is replaced by
\* any other digest.
C5_SignatureIntegrity ==
    ret # <<>> =>
        /\ verify_signature(key, ret[1])
        /\ \A d \in Digests :
              d # ret[1].leaf_hashes[1] =>
                  ~verify_signature(key, [ret[1] EXCEPT !.leaf_hashes = <<d>>])

\* add_event has returned a block to its caller
C5_Witness ==
    /\ ret # <<>>
    /\ ret[1].signature # Empty
    /\ ret[1].index >= 2

\* C6: persistence round trip.  Writing a reachable chain with to_dict and
\* reading it back with from_dict gives as many blocks, equal position by
\* position in index, hash, previous_hash, merkle_root, nonce, signature and
\* leaf_hashes.
C6_PersistenceRoundTrip ==
    ledger = "up" =>
        LET loaded == FromDicts(ToDicts(chain))
        IN /\ Len(loaded) = Len(chain)
           /\ \A i \in 1..Len(chain) :
                 /\ loaded[i].index = chain[i].index
                 /\ loaded[i].hash = chain[i].hash
                 /\ loaded[i].previous_hash = chain[i].previous_hash
                 /\ loaded[i].merkle_root = chain[i].merkle_root
                 /\ loaded[i].nonce = chain[i].nonce
                 /\ loaded[i].signature = chain[i].signature
                 /\ loaded[i].leaf_hashes = chain[i].leaf_hashes

\* a chain of three blocks, one of them sealed with a nonce above 0, whose
\* reloaded copy is not the same object state (data_hash is not stored)
C6_Witness ==
    /\ ledger = "up"
    /\ Len(chain) >= 3
    /\ \E i \in 1..Len(chain) : chain[i].nonce > 0
    /\ FromDicts(ToDicts(chain)) # chain

\* C7: proof of work.  Every block of the chain has the hash calculate_hash
\* gives for its final fields, and that hash begins with DIFFICULTY zeros.
C7_ProofOfWork ==
    \A i \in 1..Len(chain) :
        /\ chain[i].hash = calculate_hash(chain[i])
        /\ startswith(chain[i].hash, Prefix)

\* a chain, reloaded after a restart, with a block whose sealing took retries
C7_Witness ==
    /\ ledger = "up"
    /\ runs >= 2
    /\ Len(chain) >= 2
    /\ \E i \in 2..Len(chain) : chain[i].nonce > 0

\* C8: index invariant.  In every state in which the ledger is constructed the
\* chain is not empty and the block at position i (from 0) has index i; the
\* block add_event is about to append has the index of the tip plus 1.
C8_IndexInvariant ==
    ledger = "up" =>
        /\ Len(chain) >= 1
        /\ \A i \in 1..Len(chain) : chain[i].index = i - 1
        /\ \A t \in Threads :
              pc[t] = "append" => loc[t].block[1].index = chain[Len(chain)].index + 1

\* C9: append-only.  In every step that leaves the ledger up (add_event's
\* statements, the queries, a restart with reload) the chain grows by at most
\* one block and the blocks it held stay where they were, field by field.
C9_AppendOnly ==
    [][(ledger = "up" /\ ledger' = "up") =>
          /\ Len(chain') >= Len(chain)
          /\ Len(chain') <= Len(chain) + 1
          /\ \A i \in 1..Len(chain) : i <= Len(chain') => SameRecord(chain'[i], chain[i])]_vars

\* the genesis block as _create_genesis_block makes it
IsGenesis(b) ==
    /\ b.index = 0
    /\ b.event_type = GENESIS
    /\ b.reference_id = SYSTEM
    /\ b.actor = SYSTEM
    /\ b.leaf_hashes = <<Zero>>
    /\ b.signature = Empty
    /\ b.previous_hash = Zero
    /\ b.hash = calculate_hash(b)
    /\ startswith(b.hash, Prefix)

\* C10: ledger lifecycle.  A start without CHAIN_FILE that succeeds leaves a
\* chain of exactly the genesis block, persisted; a start with a readable
\* CHAIN_FILE gives the stored sequence back, leaves the file alone and makes
\* no genesis block.  So the chain of a constructed ledger has exactly one
\* genesis block, at position 0, and the add_event that runs on a chain of only
\* the genesis block builds and returns a block with index 1 and the genesis
\* hash as previous_hash.
C10_StateInv ==
    ledger = "up" =>
        /\ Len(chain) >= 1
        /\ IsGenesis(chain[1])
        /\ \A i \in 2..Len(chain) : chain[i].event_type # GENESIS /\ chain[i].index # 0
        /\ \A t \in Threads :
              (pc[t] \in {"append", "persist"} /\ loc[t].index = 1) =>
                  /\ loc[t].block[1].index = 1
                  /\ loc[t].block[1].previous_hash = chain[1].hash
        /\ (ret # <<>> /\ ret[1].index = 1) =>
              /\ chain[2] = ret[1]
              /\ ret[1].previous_hash = chain[1].hash

C10_StartStep ==
    (runs' = runs + 1) =>
        /\ (file.state = "absent" /\ ledger' = "up") =>
              /\ Len(chain') = 1
              /\ IsGenesis(chain'[1])
              /\ file' = FileOf(chain')
        /\ file.state = "ok" =>
              /\ ledger' = "up"
              /\ ToDicts(chain') = file.data
              /\ file' = file

C10_Lifecycle == [](C10_StateInv) /\ [][C10_StartStep]_vars

\* a ledger started on an empty store, stopped, started again on the stored
\* chain, that then returned its first block after the genesis block
C10_Witness ==
    /\ ledger = "up"
    /\ runs >= 2
    /\ ret # <<>>
    /\ ret[1].index = 1
    /\ Len(chain) = 2

\* the structural validation of a persisted sequence: not empty, the indexes
\* count up from 0, and each previous_hash is the hash of the entry before
StructurallyValid(data) ==
    /\ Len(data) >= 1
    /\ \A i \in 1..Len(data) : data[i].index = i - 1
    /\ \A i \in 2..Len(data) : data[i].previous_hash = data[i - 1].hash

\* C11: a corrupt persisted chain fails startup.  A start that finds a readable
\* CHAIN_FILE whose sequence fails structural validation does not produce a
\* constructed ledger, and leaves the file as it found it.
C11_CorruptFailsStartup ==
    [][(runs' = runs + 1 /\ file.state = "ok" /\ ~StructurallyValid(file.data)) =>
           (ledger' # "up" /\ file' = file)]_vars

\* C12: odd-length padding.  For every leaf list of odd length above one,
\* build_merkle_root gives the root it gives for the list with its last entry
\* repeated once more, [a, b, c] and [a, b, c, c] included; and the call
\* leaves the caller's list as it was.
C12_OddPadding ==
    [][(mk.pc = "start" /\ mk'.pc = "root") =>
           /\ mk'.leaves = mk.leaves
           /\ (Len(mk.leaves) > 1 /\ Len(mk.leaves) % 2 = 1) =>
                  mk'.root = build_merkle_root(Append(mk.leaves, mk.leaves[Len(mk.leaves)]))]_vars

\* the root of three pairwise distinct leaves has been built
C12_Witness ==
    /\ mk.pc = "root"
    /\ Len(mk.leaves) = 3
    /\ Distinct(mk.leaves)
    /\ mk.root = build_merkle_root(mk.leaves \o <<mk.leaves[3]>>)
    /\ mk.root # build_merkle_root(SubSeq(mk.leaves, 1, 2))

\* C13: verify_signature is a pure query.  For every block of the chain, the
\* genesis block with its empty signature and reloaded blocks included, it
\* answers true or false and raises nothing; it answers false whenever the
\* signature is not a valid signature of leaf_hashes[0] under the current
\* public key; and it changes neither the chain in memory nor CHAIN_FILE.
C13_Answer ==
    vres # <<>> =>
        LET b == chain[vres[1].block]
        IN /\ ~vres[1].raised
           /\ vres[1].valid \in BOOLEAN
           /\ b.signature = Empty => ~vres[1].valid
           /\ ~Verify(key, FromHex(b.signature), b.leaf_hashes[1]) => ~vres[1].valid

C13_QueryStep == (vres' # <<>>) => (chain' = chain /\ file' = file /\ key' = key)

C13_PureQuery == [](C13_Answer) /\ [][C13_QueryStep]_vars

\* verify_signature has answered false for a genesis block read back from
\* CHAIN_FILE
C13_Witness ==
    /\ vres # <<>>
    /\ vres[1].block = 1
    /\ ~vres[1].valid
    /\ ~vres[1].raised
    /\ runs >= 2
    /\ chain[1].signature = Empty
    /\ Len(chain) >= 2

\* C14: the Merkle root is derived.  Every block, newly built or rebuilt by
\* from_dict, has merkle_root = build_merkle_root(leaf_hashes); from_dict
\* recomputes the root whatever merkle_root the stored entry carries, and takes
\* the stored hash and nonce over as they are; the root of no leaves is "0".
C14_MerkleRootDerived ==
    /\ build_merkle_root(<<>>) = Zero
    /\ \A i \in 1..Len(chain) :
          chain[i].merkle_root = build_merkle_root(chain[i].leaf_hashes)
    /\ \A t \in Threads :
          \A k \in 1..Len(loc[t].block) :
             loc[t].block[k].merkle_root = build_merkle_root(loc[t].block[k].leaf_hashes)
    /\ \A i \in 1..Len(file.data) :
          \A x \in Digests \cup {Empty} :
             LET d == [file.data[i] EXCEPT !.merkle_root = x]
                 b == from_dict(d)
             IN /\ b.merkle_root = build_merkle_root(d.leaf_hashes)
                /\ b.hash = d.hash
                /\ b.nonce = d.nonce

\* a block made by add_event, sealed after retries, read back from CHAIN_FILE
C14_Witness ==
    /\ ledger = "up"
    /\ runs >= 2
    /\ Len(chain) >= 2
    /\ chain[2].data_hash = Empty
    /\ chain[2].nonce > 0
    /\ chain[2].merkle_root = chain[2].leaf_hashes[1]
    /\ chain[2].merkle_root # Zero

\* C15: sealing returns the first qualifying hash and is deterministic.
\* mine_block starts at the block's initial nonce and adds one per failed
\* attempt; it returns with the smallest nonce at or above the initial one
\* whose calculate_hash starts with DIFFICULTY zeros, and with that hash; a
\* block with the same fields always ends with the same nonce and hash.
C15_FirstQualifying ==
    /\ seal.pc = "search" => seal.block[1].nonce = seal.first + seal.attempts
    /\ seal.pc = "done" =>
          LET b == seal.block[1]
          IN /\ b.nonce = seal.first + seal.attempts - 1
             /\ b.hash = calculate_hash(b)
             /\ startswith(b.hash, Prefix)
             /\ \A n \in seal.first..(b.nonce - 1) :
                   ~startswith(calculate_hash([b EXCEPT !.nonce = n]), Prefix)
             /\ b = mine_block([b EXCEPT !.nonce = seal.first, !.hash = Empty])

\* a sealing that started at nonce 1 and ended after two failed attempts
C15_Witness ==
    /\ seal.pc = "done"
    /\ seal.first = 1
    /\ seal.attempts = 3
    /\ seal.block[1].nonce = 3

\* C16: sealing is bounded.  The nonce search stops after at most MaxAttempts
\* attempts, with a qualifying hash or with a sealing-timeout failure: no
\* search is still going on, or only then succeeding, beyond that number.
C16_SealingBounded ==
    seal.attempts <= MaxAttempts

\* C17: signing keys are per run.  Every start makes a new key, which is
\* stored nowhere: verify_signature rejects a block that was appended by an
\* earlier run and read back from CHAIN_FILE, and accepts a block appended by
\* the current run.
C17_KeysPerRun ==
    (vres # <<>> /\ vres[1].block >= 2) =>
        (vres[1].valid <=> vres[1].block > nloaded)

\* in its second run the ledger has rejected the block the first run appended,
\* with a block of its own on the chain
C17_Witness ==
    /\ vres # <<>>
    /\ runs = 2
    /\ nloaded = 2
    /\ Len(chain) = 3
    /\ vres[1].block = 2
    /\ ~vres[1].valid
    /\ verify_signature(key, chain[3])

\* a block record with every field set and a seal that matches its fields
FullyBuilt(d) ==
    /\ d.hash # Empty
    /\ d.hash = calculate_hash(d)
    /\ startswith(d.hash, Prefix)
    /\ d.merkle_root = build_merkle_root(d.leaf_hashes)
    /\ d.leaf_hashes # <<>>
    /\ d.event_type # GENESIS => d.signature # Empty

\* C18: readers never see a half-built block.  With add_event calls and
\* chain listings interleaving in any way, every block on the chain, and every
\* entry a listing returns, is fully built and sealed: its hash is set and is
\* calculate_hash of its fields with its final nonce.
C18_NoHalfBuilt ==
    /\ \A i \in 1..Len(chain) : FullyBuilt(chain[i])
    /\ view # <<>> => \A i \in 1..Len(view[1]) : FullyBuilt(view[1][i])

\* a listing answered while one add_event has appended its block and not yet
\* persisted it, and another has built its block and not yet appended it
C18_Witness ==
    /\ view # <<>>
    /\ Len(view[1]) = 2
    /\ \E t, u \in Threads : pc[t] = "persist" /\ pc[u] = "append"

\* a caller has entered add_event with an approve or pay event in this step
EntersApproveOrPay(t) ==
    /\ pc[t] = "idle"
    /\ pc'[t] = "index"
    /\ loc'[t].ev.event_type \in {PAYMENT_APPROVED, PAYMENT_PROCESSED}

\* C19: an approve or pay request for an invoice id that is not in the DB fails
\* with 404 and has no effect.  No such request gets as far as add_event or
\* changes the DB; the step that answers 404 leaves the DB, the chain in
\* memory and CHAIN_FILE as they were, and appends no block.
C19_NotFoundStep ==
    /\ \A t \in Threads :
          EntersApproveOrPay(t) => db[loc'[t].ev.reference_id] # NoEntry
    /\ \A id \in InvoiceIds :
          (db[id] = NoEntry /\ db'[id] # NoEntry) => db'[id] = UPLOADED
    /\ resp' # <<>> =>
          /\ resp' = <<404>>
          /\ db' = db /\ chain' = chain /\ file' = file /\ pc' = pc /\ loc' = loc

C19_NotFound == [][C19_NotFoundStep]_vars

\* 404 has been answered for one invoice id while the other has been uploaded
\* and is on the chain
C19_Witness ==
    /\ resp = <<404>>
    /\ db[INV2] = NoEntry
    /\ db[INV1] = UPLOADED
    /\ Len(chain) = 2
    /\ file = FileOf(chain)

\* the event type add_event is called with when a status is written to the DB
EventTypeOf(status) ==
    IF status = UPLOADED THEN INVOICE_UPLOADED
    ELSE IF status = APPROVED THEN PAYMENT_APPROVED
    ELSE PAYMENT_PROCESSED

\* C20: workflow order.  Whenever no request is in progress, every
\* PAYMENT_APPROVED or PAYMENT_PROCESSED block of the chain has an
\* INVOICE_UPLOADED block with the same reference_id before it, and every
\* status stored in the DB has a block of the matching event type and
\* reference_id on the chain, also after requests whose add_event failed.
C20_WorkflowOrder ==
    (ledger = "up" /\ AllIdle) =>
        /\ \A i \in 1..Len(chain) :
              chain[i].event_type \in {PAYMENT_APPROVED, PAYMENT_PROCESSED} =>
                  \E j \in 1..(i - 1) :
                      /\ chain[j].event_type = INVOICE_UPLOADED
                      /\ chain[j].reference_id = chain[i].reference_id
        /\ \A id \in InvoiceIds :
              db[id] # NoEntry =>
                  \E i \in 1..Len(chain) :
                      /\ chain[i].event_type = EventTypeOf(db[id])
                      /\ chain[i].reference_id = id

====
